---- MODULE Spec2Model ----
(***************************************************************************)
(* Credential store (APIKeyManager, src/api_manager.py) of the document    *)
(* summarizer, with the callers of the store in the web layer (src/app.py) *)
(* and in the desktop layer (src/native_app.py), and the provider adapters  *)
(* with their registry (src/ai_providers.py).                              *)
(*                                                                         *)
(* Strings are sequences of Unicode code points; bytes are 0..255.         *)
(***************************************************************************)
EXTENDS Integers, Sequences, FiniteSets, TLC

VARIABLES
    config,     \* the in-memory document of the store instance of this process
    file,       \* the persisted configuration file
    last,       \* the record of the last call
    peer,       \* the in-memory document of a store instance in a second process
    instances,  \* the adapter instances alive
    genai,      \* the api key the google.generativeai module is configured with
    threads     \* the request handler threads of the web server

vars == <<config, file, last, peer, instances, genai, threads>>

(***************************************************************************)
(* Bounds and input sets                                                   *)
(***************************************************************************)
\* longest credential of the credential specification (SpecKeys)
MaxKeyLen == 3

\* code points credentials are made of: "a", "." and U+00E9 (two bytes in UTF-8)
KeyAlphabet == {97, 46, 233}

\* Python's None, and the marker of a raised exception in a str-valued result
None == <<-1>>
Raised == <<-2>>

groq == <<103, 114, 111, 113>>
Groq == <<71, 114, 111, 113>>
openai == <<111, 112, 101, 110, 97, 105>>

\* identifiers the callers pass: request.json 'provider' (src/app.py:330), never
\* falsy (src/app.py:333); the store itself checks nothing
ProviderNames == {groq, Groq, openai}

RECURSIVE SeqsUpTo(_, _)
SeqsUpTo(S, n) ==
    IF n = 0 THEN {<<>>}
    ELSE LET shorter == SeqsUpTo(S, n - 1)
         IN  shorter \cup {Append(s, c) : s \in shorter, c \in S}

\* credentials the callers pass: request.json 'api_key', never falsy
\* (src/app.py:333); one, two and three bytes long once encoded
ApiKeys == {<<97>>, <<233>>, <<97, 233>>}

\* credentials of the credential specification: every non-empty string up to
\* MaxKeyLen, and strings longer than the preview's 12 and 4 character limits
LongKeys ==
    {<<97, 98, 99, 100, 101>>,
     <<97, 98, 99, 100, 101, 102, 103, 104, 105, 106, 107, 108, 109>>,
     <<115, 107, 45, 233, 98, 99, 100, 101, 102, 103, 104, 105, 106, 107,
       108, 109, 110, 111, 112, 113>>}

AllKeys == (SeqsUpTo(KeyAlphabet, MaxKeyLen) \ {<<>>}) \cup LongKeys

\* model ids the desktop layer passes (src/native_app.py:547)
ModelIds == {<<109, 49>>, <<109, 50>>}

(***************************************************************************)
(* str.lower, str.encode / bytes.decode (UTF-8), base64                    *)
(***************************************************************************)
LowerChar(c) == IF c \in 65..90 THEN c + 32 ELSE c

Lower(s) == [i \in 1..Len(s) |-> LowerChar(s[i])]

\* str.encode() that keeps one byte of every code point
Utf8Encode_OneByte(s) == [i \in 1..Len(s) |-> s[i] % 256]

\* str.encode(): UTF-8 of code points below U+0800
RECURSIVE Utf8Encode(_)
Utf8Encode(s) ==
    IF s = <<>> THEN <<>>
    ELSE LET c == Head(s)
         IN  (IF c < 128 THEN <<c>>
              ELSE <<192 + (c \div 64), 128 + (c % 64)>>) \o Utf8Encode(Tail(s))

\* bytes.decode(): Raised on a malformed sequence
RECURSIVE Utf8Decode(_)
Utf8Decode(b) ==
    IF b = <<>> THEN <<>>
    ELSE IF b[1] < 128
         THEN LET rest == Utf8Decode(Tail(b))
              IN  IF rest = Raised THEN Raised ELSE <<b[1]>> \o rest
    ELSE IF b[1] \in 194..223 /\ Len(b) >= 2 /\ b[2] \in 128..191
         THEN LET rest == Utf8Decode(Tail(Tail(b)))
              IN  IF rest = Raised THEN Raised
                  ELSE <<(b[1] - 192) * 64 + (b[2] - 128)>> \o rest
    ELSE Raised

\* the base64 alphabet: A-Z a-z 0-9 + /
B64Char(i) ==
    IF i < 26 THEN 65 + i
    ELSE IF i < 52 THEN 97 + (i - 26)
    ELSE IF i < 62 THEN 48 + (i - 52)
    ELSE IF i = 62 THEN 43 ELSE 47

B64Index(c) ==
    IF c \in 65..90 THEN c - 65
    ELSE IF c \in 97..122 THEN c - 97 + 26
    ELSE IF c \in 48..57 THEN c - 48 + 52
    ELSE IF c = 43 THEN 62
    ELSE IF c = 47 THEN 63 ELSE 64

B64Pad == 61

\* base64.b64encode
RECURSIVE B64Encode(_)
B64Encode(b) ==
    IF Len(b) = 0 THEN <<>>
    ELSE IF Len(b) = 1
         THEN <<B64Char(b[1] \div 4), B64Char((b[1] % 4) * 16), B64Pad, B64Pad>>
    ELSE IF Len(b) = 2
         THEN <<B64Char(b[1] \div 4), B64Char((b[1] % 4) * 16 + (b[2] \div 16)),
                B64Char((b[2] % 16) * 4), B64Pad>>
    ELSE <<B64Char(b[1] \div 4), B64Char((b[1] % 4) * 16 + (b[2] \div 16)),
           B64Char((b[2] % 16) * 4 + (b[3] \div 64)), B64Char(b[3] % 64)>>
         \o B64Encode(SubSeq(b, 4, Len(b)))

\* base64.b64decode (validate=False), as binascii.a2b_base64 scans its input:
\* characters outside the alphabet are skipped, a complete pad sequence ends
\* the scan, an incomplete last quad raises
RECURSIVE B64Scan(_, _, _, _, _, _)
B64Scan(s, i, quad, left, pads, out) ==
    IF i > Len(s) THEN (IF quad # 0 THEN Raised ELSE out)
    ELSE IF s[i] = B64Pad
         THEN IF quad >= 2 /\ quad + pads + 1 >= 4 THEN out
              ELSE B64Scan(s, i + 1, quad, left,
                           IF quad >= 2 THEN pads + 1 ELSE pads, out)
    ELSE LET v == B64Index(s[i])
         IN  IF v = 64 THEN B64Scan(s, i + 1, quad, left, pads, out)
             ELSE IF quad = 0 THEN B64Scan(s, i + 1, 1, v, 0, out)
             ELSE IF quad = 1
                  THEN B64Scan(s, i + 1, 2, v % 16, 0,
                               Append(out, left * 4 + (v \div 16)))
             ELSE IF quad = 2
                  THEN B64Scan(s, i + 1, 3, v % 4, 0,
                               Append(out, left * 16 + (v \div 4)))
             ELSE B64Scan(s, i + 1, 0, 0, 0, Append(out, left * 64 + v))

B64Decode(s) == B64Scan(s, 1, 0, 0, 0, <<>>)

\* APIKeyManager._encode_key
_encode_key(key) == B64Encode(Utf8Encode(key))

\* APIKeyManager._decode_key: Raised when either decoding step raises
_decode_key(encoded_key) ==
    LET b == B64Decode(Utf8Encode(encoded_key))
    IN  IF b = Raised THEN Raised ELSE Utf8Decode(b)

(***************************************************************************)
(* The 'providers' dict: insertion-ordered, one entry per key              *)
(***************************************************************************)
DictKeys(d) == [i \in 1..Len(d) |-> d[i].name]

HasKey(d, k) == \E i \in 1..Len(d) : d[i].name = k

DictGet(d, k) == d[CHOOSE i \in 1..Len(d) : d[i].name = k]

\* d[k] = v: an existing key keeps its position, a new key goes last
DictSet(d, k, v) ==
    IF HasKey(d, k)
    THEN [i \in 1..Len(d) |-> IF d[i].name = k THEN v ELSE d[i]]
    ELSE Append(d, v)

\* del d[k]
DictDel(d, k) == SelectSeq(d, LAMBDA e : e.name # k)

\* APIKeyManager._default_config
_default_config == [providers |-> <<>>, default_provider |-> None]

(***************************************************************************)
(* json.dump of the document into the config file                          *)
(***************************************************************************)
JsonQuote == 34
JsonNull == <<110, 117, 108, 108>>

JsonStr(s) == <<JsonQuote>> \o s \o <<JsonQuote>>

JsonDump(doc) ==
    [providers |-> [i \in 1..Len(doc.providers) |->
                      [name |-> JsonStr(doc.providers[i].name),
                       api_key |-> JsonStr(doc.providers[i].api_key),
                       enabled |-> doc.providers[i].enabled]],
     default_provider |-> IF doc.default_provider = None THEN JsonNull
                          ELSE JsonStr(doc.default_provider)]

\* the file after _save_config has written doc
Saved(doc) == [exists |-> TRUE, kind |-> "document", text |-> JsonDump(doc)]

NoFile == [exists |-> FALSE, kind |-> "document", text |-> JsonDump(_default_config)]

\* json.load of what JsonDump wrote
JsonLoadStr(t) == IF t = JsonNull THEN None ELSE SubSeq(t, 2, Len(t) - 1)

JsonLoad(text) ==
    [providers |-> [i \in 1..Len(text.providers) |->
                      [name |-> JsonLoadStr(text.providers[i].name),
                       api_key |-> JsonLoadStr(text.providers[i].api_key),
                       enabled |-> text.providers[i].enabled]],
     default_provider |-> JsonLoadStr(text.default_provider)]

\* a file that holds something else than a written document:
\*   "invalid"     text that is not JSON
\*   "truncated"   the empty text open(config_file, 'w') leaves
\*   "unreadable"  open(config_file, 'r') raises
\*   "array"       the well-formed JSON []
\*   "object"      the well-formed JSON {}
OtherFile(kind) == [exists |-> TRUE, kind |-> kind, text |-> JsonDump(_default_config)]

\* what json.load returns for well-formed JSON that is not a document
NotDocument(kind) == [shape |-> kind]

\* APIKeyManager._load_config: the bare except covers open and json.load
_load_config(f) ==
    IF ~f.exists THEN _default_config
    ELSE IF f.kind \in {"invalid", "truncated", "unreadable"} THEN _default_config
    ELSE IF f.kind = "document" THEN JsonLoad(f.text)
    ELSE NotDocument(f.kind)

\* self.config has the keys the methods subscript
IsDocument(doc) == "providers" \in DOMAIN doc

\* the exception of self.config['providers'] / self.config['default_provider']
\* on what json.load returned: a list takes no str index, a dict lacks the key
SubscriptError(doc) ==
    IF IsDocument(doc) THEN "no"
    ELSE IF doc.shape = "array" THEN "TypeError" ELSE "KeyError"

(***************************************************************************)
(* The record of the last call: what was called, with what, what it found  *)
(* and what it returned                                                    *)
(***************************************************************************)
\* what the backend does to one call of an adapter: whether the SDK client can
\* be constructed, whether the request succeeds, the text of the response, the
\* message of the error
NoEnv == [construct |-> "ok", call |-> "ok", content |-> None, msg |-> ""]

\* the request handler threads of make_server(..., threaded=True) that run
\* at a time
HandlerThreads == {1, 2}

\* a handler thread that serves no request
Idle == [op |-> "idle", name |-> None, key |-> None, sad |-> FALSE,
         pc |-> "done", raised |-> "no"]

\* no document text
NoText == [doc |-> "", len |-> 0]

NoCall ==
    [op |-> "init", name |-> None, key |-> None, sad |-> FALSE,
     model |-> None, env |-> NoEnv, text |-> NoText, preBuilt |-> FALSE,
     preDefault |-> None, preHad |-> FALSE, saved |-> FALSE,
     ret |-> None, retBool |-> FALSE, retList |-> <<>>, raised |-> "no",
     pc |-> "done", inst |-> 0, requests |-> <<>>,
     error |-> [tag |-> "", msg |-> ""]]

Call(op, name) ==
    [NoCall EXCEPT !.op = op, !.name = name,
                   !.preDefault = config.default_provider,
                   !.preHad = HasKey(config.providers, name)]

Init ==
    /\ config = _default_config
    /\ file = NoFile
    /\ last = NoCall
    /\ peer = _default_config
    /\ instances = <<>>
    /\ genai = None
    /\ threads = [t \in HandlerThreads |-> Idle]

(***************************************************************************)
(* APIKeyManager.add_provider                                              *)
(***************************************************************************)
\* add_provider with the default pointer moved on every call
AddProviderDoc_AlwaysDefault(doc, provider_name, api_key, set_as_default) ==
    [providers |-> DictSet(doc.providers, provider_name,
                           [name |-> provider_name,
                            api_key |-> _encode_key(api_key),
                            enabled |-> TRUE]),
     default_provider |-> provider_name]

\* add_provider that makes the provider the default only when asked to
AddProviderDoc_OnlyWhenAsked(doc, provider_name, api_key, set_as_default) ==
    LET providers == DictSet(doc.providers, provider_name,
                             [name |-> provider_name,
                              api_key |-> _encode_key(api_key),
                              enabled |-> TRUE])
    IN  [providers |-> providers,
         default_provider |->
             IF set_as_default THEN provider_name ELSE doc.default_provider]

AddProviderDoc(doc, provider_name, api_key, set_as_default) ==
    LET providers == DictSet(doc.providers, provider_name,
                             [name |-> provider_name,
                              api_key |-> _encode_key(api_key),
                              enabled |-> TRUE])
    IN  [providers |-> providers,
         default_provider |->
             IF set_as_default \/ doc.default_provider = None
             THEN provider_name ELSE doc.default_provider]

add_provider(provider_name, api_key, set_as_default) ==
    /\ config' = AddProviderDoc(config, provider_name, api_key, set_as_default)
    /\ file' = Saved(config')
    /\ last' = [Call("add_provider", provider_name) EXCEPT
                  !.key = api_key, !.sad = set_as_default, !.saved = TRUE]
    /\ UNCHANGED <<peer, instances, genai, threads>>

(***************************************************************************)
(* APIKeyManager.remove_provider                                           *)
(***************************************************************************)
\* remove_provider that leaves the default pointer alone
RemoveProviderDoc_NoPromote(doc, provider_name) ==
    [doc EXCEPT !.providers = DictDel(doc.providers, provider_name)]

\* remove_provider that promotes the last remaining provider
RemoveProviderDoc_PromoteLast(doc, provider_name) ==
    IF HasKey(doc.providers, provider_name)
    THEN LET providers == DictDel(doc.providers, provider_name)
             remaining == DictKeys(providers)
         IN  [providers |-> providers,
              default_provider |->
                  IF doc.default_provider = provider_name
                  THEN (IF remaining # <<>> THEN remaining[Len(remaining)] ELSE None)
                  ELSE doc.default_provider]
    ELSE doc

\* remove_provider that promotes without looking whether a provider remains
RemoveProviderDoc_KeepWhenEmpty(doc, provider_name) ==
    IF HasKey(doc.providers, provider_name)
    THEN LET providers == DictDel(doc.providers, provider_name)
             remaining == DictKeys(providers)
         IN  [providers |-> providers,
              default_provider |->
                  IF doc.default_provider = provider_name /\ remaining # <<>>
                  THEN remaining[1]
                  ELSE doc.default_provider]
    ELSE doc

RemoveProviderDoc(doc, provider_name) ==
    IF HasKey(doc.providers, provider_name)
    THEN LET providers == DictDel(doc.providers, provider_name)
             remaining == DictKeys(providers)
         IN  [providers |-> providers,
              default_provider |->
                  IF doc.default_provider = provider_name
                  THEN (IF remaining # <<>> THEN remaining[1] ELSE None)
                  ELSE doc.default_provider]
    ELSE doc

\* remove_provider that saves whether or not it removed a record
remove_provider_AlwaysSave(provider_name) ==
    /\ config' = RemoveProviderDoc(config, provider_name)
    /\ file' = Saved(config')
    /\ last' = [Call("remove_provider", provider_name) EXCEPT !.saved = TRUE]
    /\ UNCHANGED <<peer, instances, genai, threads>>

remove_provider(provider_name) ==
    /\ config' = RemoveProviderDoc(config, provider_name)
    /\ file' = IF HasKey(config.providers, provider_name)
               THEN Saved(config') ELSE file
    /\ last' = [Call("remove_provider", provider_name) EXCEPT
                  !.saved = HasKey(config.providers, provider_name)]
    /\ UNCHANGED <<peer, instances, genai, threads>>

(***************************************************************************)
(* APIKeyManager.set_default_provider                                      *)
(***************************************************************************)
\* set_default_provider without the check for a stored record
SetDefaultProviderDoc_Unchecked(doc, provider_name) ==
    [doc EXCEPT !.default_provider = provider_name]

SetDefaultProviderDoc(doc, provider_name) ==
    IF HasKey(doc.providers, provider_name)
    THEN [doc EXCEPT !.default_provider = provider_name]
    ELSE doc

\* set_default_provider without the _save_config call
set_default_provider_NoSave(provider_name) ==
    /\ config' = SetDefaultProviderDoc(config, provider_name)
    /\ file' = file
    /\ last' = Call("set_default_provider", provider_name)
    /\ UNCHANGED <<peer, instances, genai, threads>>

set_default_provider(provider_name) ==
    /\ config' = SetDefaultProviderDoc(config, provider_name)
    /\ file' = IF HasKey(config.providers, provider_name)
               THEN Saved(config') ELSE file
    /\ last' = [Call("set_default_provider", provider_name) EXCEPT
                  !.saved = HasKey(config.providers, provider_name)]
    /\ UNCHANGED <<peer, instances, genai, threads>>

(***************************************************************************)
(* The queries                                                             *)
(***************************************************************************)
\* Python's truth value of an Optional[str]
Truthy(s) == s # None /\ Len(s) > 0

\* get_api_key that does not fall back to the default provider
GetApiKey_NoDefault(doc, provider_name) ==
    IF Truthy(provider_name) /\ HasKey(doc.providers, provider_name)
    THEN _decode_key(DictGet(doc.providers, provider_name).api_key)
    ELSE None

GetApiKey(doc, provider_name) ==
    LET resolved == IF provider_name = None THEN doc.default_provider
                    ELSE provider_name
    IN  IF Truthy(resolved) /\ HasKey(doc.providers, resolved)
        THEN _decode_key(DictGet(doc.providers, resolved).api_key)
        ELSE None

get_api_key(provider_name) ==
    /\ last' = [Call("get_api_key", provider_name) EXCEPT
                  !.ret = GetApiKey(config, provider_name)]
    /\ UNCHANGED <<config, file, peer, instances, genai, threads>>

GetDefaultProvider(doc) == doc.default_provider

get_default_provider ==
    /\ last' = [Call("get_default_provider", None) EXCEPT
                  !.ret = GetDefaultProvider(config)]
    /\ UNCHANGED <<config, file, peer, instances, genai, threads>>

Ellipsis == <<46, 46, 46>>
Masked == <<42, 42, 42>>

\* s[:n] and s[-n:]
Prefix(s, n) == SubSeq(s, 1, IF Len(s) < n THEN Len(s) ELSE n)
Suffix(s, n) == SubSeq(s, IF Len(s) < n THEN 1 ELSE Len(s) - n + 1, Len(s))

\* the preview without the try: what _decode_key raises comes out
_get_key_preview_Unguarded(encoded_key) ==
    LET key == _decode_key(encoded_key)
    IN  IF key = Raised THEN Raised
        ELSE IF Len(key) > 12 THEN Prefix(key, 8) \o Ellipsis \o Suffix(key, 4)
        ELSE Prefix(key, 4) \o Ellipsis

_get_key_preview(encoded_key) ==
    LET key == _decode_key(encoded_key)
    IN  IF key = Raised THEN Masked
        ELSE IF Len(key) > 12 THEN Prefix(key, 8) \o Ellipsis \o Suffix(key, 4)
        ELSE Prefix(key, 4) \o Ellipsis

ListProviders(doc) ==
    [i \in 1..Len(doc.providers) |->
        [name |-> doc.providers[i].name,
         enabled |-> doc.providers[i].enabled,
         is_default |-> doc.providers[i].name = doc.default_provider,
         api_key_preview |-> _get_key_preview(doc.providers[i].api_key)]]

list_providers ==
    /\ last' = [Call("list_providers", None) EXCEPT
                  !.retList = ListProviders(config)]
    /\ UNCHANGED <<config, file, peer, instances, genai, threads>>

HasAnyProvider(doc) == Len(doc.providers) > 0

has_any_provider ==
    /\ last' = [Call("has_any_provider", None) EXCEPT
                  !.retBool = HasAnyProvider(config)]
    /\ UNCHANGED <<config, file, peer, instances, genai, threads>>

(***************************************************************************)
(* The store over a file it finds at construction, and _save_config step   *)
(* by step: open(config_file, 'w') truncates the file, json.dump then       *)
(* writes the document                                                     *)
(***************************************************************************)
FileNames == {groq, openai}
FileKeys == {<<97>>, <<233>>}

StartFiles ==
    {NoFile, Saved(AddProviderDoc(_default_config, groq, <<97>>, TRUE))}
    \cup {OtherFile(k) : k \in {"invalid", "truncated", "unreadable", "array", "object"}}

\* APIKeyManager.__init__ over the file found
InitFile ==
    /\ file \in StartFiles
    /\ config = _load_config(file)
    /\ last = NoCall
    /\ peer = _default_config
    /\ instances = <<>>
    /\ genai = None
    /\ threads = [t \in HandlerThreads |-> Idle]

\* the methods of the store that subscript self.config before anything else
SubscriptingMethods ==
    {"add_provider", "remove_provider", "get_api_key", "get_default_provider",
     "set_default_provider", "list_providers", "has_any_provider"}

\* a method called on a store whose self.config is not a document
call_on_loaded(method) ==
    /\ ~IsDocument(config)
    /\ last.pc = "done"
    /\ last' = [NoCall EXCEPT !.op = method, !.raised = SubscriptError(config)]
    /\ UNCHANGED <<config, file, peer, instances, genai, threads>>

\* a mutator up to and including open(self.config_file, 'w')
OpenForWrite(doc, call) ==
    /\ IsDocument(config)
    /\ last.pc = "done"
    /\ config' = doc
    /\ file' = OtherFile("truncated")
    /\ last' = [call EXCEPT !.pc = "writing"]
    /\ UNCHANGED <<peer, instances, genai, threads>>

begin_add_provider(provider_name, api_key, set_as_default) ==
    OpenForWrite(AddProviderDoc(config, provider_name, api_key, set_as_default),
                 [Call("add_provider", provider_name) EXCEPT
                    !.key = api_key, !.sad = set_as_default])

begin_remove_provider(provider_name) ==
    /\ IsDocument(config)
    /\ HasKey(config.providers, provider_name)
    /\ OpenForWrite(RemoveProviderDoc(config, provider_name),
                    Call("remove_provider", provider_name))

begin_set_default_provider(provider_name) ==
    /\ IsDocument(config)
    /\ HasKey(config.providers, provider_name)
    /\ OpenForWrite(SetDefaultProviderDoc(config, provider_name),
                    Call("set_default_provider", provider_name))

\* json.dump and the close of the file: the mutator returns
save_write ==
    /\ last.pc = "writing"
    /\ file' = Saved(config)
    /\ last' = [last EXCEPT !.pc = "done", !.saved = TRUE]
    /\ UNCHANGED <<config, peer, instances, genai, threads>>

\* the write fails (disk full): the mutator raises, the file stays as opened
save_fails ==
    /\ last.pc = "writing"
    /\ last' = [last EXCEPT !.pc = "done", !.raised = "OSError"]
    /\ UNCHANGED <<config, file, peer, instances, genai, threads>>

\* the process dies between open and json.dump; the next process constructs
\* its store over the file
crash_restart ==
    /\ last.pc = "writing"
    /\ config' = _load_config(file)
    /\ last' = [NoCall EXCEPT !.op = "restart"]
    /\ UNCHANGED <<file, peer, instances, genai, threads>>

(***************************************************************************)
(* A store instance in a second process over the same file                 *)
(***************************************************************************)
PeerCall(op, name) ==
    [NoCall EXCEPT !.op = op, !.name = name,
                   !.preDefault = peer.default_provider,
                   !.preHad = HasKey(peer.providers, name)]

\* APIKeyManager.__init__ in the second process
peer_load ==
    /\ peer' = _load_config(file)
    /\ last' = [NoCall EXCEPT !.op = "peer_load"]
    /\ UNCHANGED <<config, file, instances, genai, threads>>

\* add_provider that reads the file again before it changes the document
peer_add_provider_Reload(provider_name, api_key, set_as_default) ==
    /\ peer' = AddProviderDoc(_load_config(file), provider_name, api_key,
                              set_as_default)
    /\ file' = Saved(peer')
    /\ last' = [PeerCall("peer_add_provider", provider_name) EXCEPT
                  !.key = api_key, !.sad = set_as_default, !.saved = TRUE]
    /\ UNCHANGED <<config, instances, genai, threads>>

\* APIKeyManager.add_provider in the second process
peer_add_provider(provider_name, api_key, set_as_default) ==
    /\ peer' = AddProviderDoc(peer, provider_name, api_key, set_as_default)
    /\ file' = Saved(peer')
    /\ last' = [PeerCall("peer_add_provider", provider_name) EXCEPT
                  !.key = api_key, !.sad = set_as_default, !.saved = TRUE]
    /\ UNCHANGED <<config, instances, genai, threads>>

\* APIKeyManager.remove_provider in the second process
peer_remove_provider(provider_name) ==
    /\ peer' = RemoveProviderDoc(peer, provider_name)
    /\ file' = IF HasKey(peer.providers, provider_name)
               THEN Saved(peer') ELSE file
    /\ last' = [PeerCall("peer_remove_provider", provider_name) EXCEPT
                  !.saved = HasKey(peer.providers, provider_name)]
    /\ UNCHANGED <<config, instances, genai, threads>>

(***************************************************************************)
(* The provider adapters and their registry (src/ai_providers.py)          *)
(***************************************************************************)
\* adapter instances kept alive at a time
MaxInstances == 1

gemini == <<103, 101, 109, 105, 110, 105>>
claude == <<99, 108, 97, 117, 100, 101>>
grok == <<103, 114, 111, 107>>
GEMINI == <<71, 69, 77, 73, 78, 73>>
\* "unknown-xyz"
unknown_xyz == <<117, 110, 107, 110, 111, 119, 110, 45, 120, 121, 122>>

\* identifiers get_provider is called with: the stored default provider
\* (src/app.py:92,102), request.json 'provider' (src/app.py:278,282)
AdapterNames == {gemini, openai, claude, groq, grok, Groq, GEMINI, unknown_xyz}

\* the credential the adapters are constructed with
AdapterKeys == {<<97>>}

\* the model argument: omitted, or a model id
ModelArgs == {None} \cup ModelIds

\* the subclasses of AIProvider
AdapterClasses ==
    {"GeminiProvider", "OpenAIProvider", "ClaudeProvider", "GroqProvider", "GrokProvider"}

\* the class attribute PROVIDER_NAME
PROVIDER_NAME(cls) ==
    IF cls = "GeminiProvider" THEN gemini
    ELSE IF cls = "OpenAIProvider" THEN openai
    ELSE IF cls = "ClaudeProvider" THEN claude
    ELSE IF cls = "GroqProvider" THEN groq
    ELSE grok

\* the class attribute DISPLAY_NAME
DISPLAY_NAME(cls) ==
    IF cls = "GeminiProvider" THEN "Google Gemini"
    ELSE IF cls = "OpenAIProvider" THEN "OpenAI (ChatGPT)"
    ELSE IF cls = "ClaudeProvider" THEN "Anthropic Claude"
    ELSE IF cls = "GroqProvider" THEN "Groq"
    ELSE "xAI Grok"

\* the class attribute MODELS: model id -> label, in the order written
MODELS(cls) ==
    IF cls = "GeminiProvider" THEN <<[id |-> <<103, 101, 109, 105, 110, 105, 45, 50, 46, 53, 45, 112, 114, 111>>, label |-> "Gemini 2.5 Pro (Best Quality)"],
             [id |-> <<103, 101, 109, 105, 110, 105, 45, 50, 46, 53, 45, 102, 108, 97, 115, 104>>, label |-> "Gemini 2.5 Flash (Fast)"],
             [id |-> <<103, 101, 109, 105, 110, 105, 45, 50, 46, 48, 45, 102, 108, 97, 115, 104>>, label |-> "Gemini 2.0 Flash"],
             [id |-> <<103, 101, 109, 105, 110, 105, 45, 49, 46, 53, 45, 112, 114, 111>>, label |-> "Gemini 1.5 Pro"],
             [id |-> <<103, 101, 109, 105, 110, 105, 45, 49, 46, 53, 45, 102, 108, 97, 115, 104>>, label |-> "Gemini 1.5 Flash"]>>
    ELSE IF cls = "OpenAIProvider" THEN <<[id |-> <<103, 112, 116, 45, 52, 111>>, label |-> "GPT-4o (Best Quality)"],
             [id |-> <<103, 112, 116, 45, 52, 111, 45, 109, 105, 110, 105>>, label |-> "GPT-4o Mini (Fast & Cheap)"],
             [id |-> <<103, 112, 116, 45, 52, 45, 116, 117, 114, 98, 111>>, label |-> "GPT-4 Turbo"],
             [id |-> <<103, 112, 116, 45, 52>>, label |-> "GPT-4"],
             [id |-> <<103, 112, 116, 45, 51, 46, 53, 45, 116, 117, 114, 98, 111>>, label |-> "GPT-3.5 Turbo (Budget)"]>>
    ELSE IF cls = "ClaudeProvider" THEN <<[id |-> <<99, 108, 97, 117, 100, 101, 45, 115, 111, 110, 110, 101, 116, 45, 52, 45, 50, 48, 50, 53, 48, 53, 49, 52>>, label |-> "Claude Sonnet 4 (Latest)"],
             [id |-> <<99, 108, 97, 117, 100, 101, 45, 51, 45, 53, 45, 115, 111, 110, 110, 101, 116, 45, 50, 48, 50, 52, 49, 48, 50, 50>>, label |-> "Claude 3.5 Sonnet"],
             [id |-> <<99, 108, 97, 117, 100, 101, 45, 51, 45, 53, 45, 104, 97, 105, 107, 117, 45, 50, 48, 50, 52, 49, 48, 50, 50>>, label |-> "Claude 3.5 Haiku (Fast)"],
             [id |-> <<99, 108, 97, 117, 100, 101, 45, 51, 45, 111, 112, 117, 115, 45, 50, 48, 50, 52, 48, 50, 50, 57>>, label |-> "Claude 3 Opus (Most Capable)"]>>
    ELSE IF cls = "GroqProvider" THEN <<[id |-> <<108, 108, 97, 109, 97, 45, 51, 46, 51, 45, 55, 48, 98, 45, 118, 101, 114, 115, 97, 116, 105, 108, 101>>, label |-> "Llama 3.3 70B (Best)"],
             [id |-> <<108, 108, 97, 109, 97, 45, 51, 46, 49, 45, 55, 48, 98, 45, 118, 101, 114, 115, 97, 116, 105, 108, 101>>, label |-> "Llama 3.1 70B"],
             [id |-> <<108, 108, 97, 109, 97, 45, 51, 46, 49, 45, 56, 98, 45, 105, 110, 115, 116, 97, 110, 116>>, label |-> "Llama 3.1 8B (Fast)"],
             [id |-> <<109, 105, 120, 116, 114, 97, 108, 45, 56, 120, 55, 98, 45, 51, 50, 55, 54, 56>>, label |-> "Mixtral 8x7B"],
             [id |-> <<103, 101, 109, 109, 97, 50, 45, 57, 98, 45, 105, 116>>, label |-> "Gemma 2 9B"]>>
    ELSE <<[id |-> <<103, 114, 111, 107, 45, 50, 45, 108, 97, 116, 101, 115, 116>>, label |-> "Grok 2 (Latest)"],
             [id |-> <<103, 114, 111, 107, 45, 50, 45, 49, 50, 49, 50>>, label |-> "Grok 2"],
             [id |-> <<103, 114, 111, 107, 45, 98, 101, 116, 97>>, label |-> "Grok Beta"]>>

\* the class attribute DEFAULT_MODEL
DEFAULT_MODEL(cls) ==
    IF cls = "GeminiProvider" THEN <<103, 101, 109, 105, 110, 105, 45, 50, 46, 53, 45, 112, 114, 111>>  \* "gemini-2.5-pro"
    ELSE IF cls = "OpenAIProvider" THEN <<103, 112, 116, 45, 52, 111>>  \* "gpt-4o"
    ELSE IF cls = "ClaudeProvider" THEN <<99, 108, 97, 117, 100, 101, 45, 115, 111, 110, 110, 101, 116, 45, 52, 45, 50, 48, 50, 53, 48, 53, 49, 52>>  \* "claude-sonnet-4-20250514"
    ELSE IF cls = "GroqProvider" THEN <<108, 108, 97, 109, 97, 45, 51, 46, 51, 45, 55, 48, 98, 45, 118, 101, 114, 115, 97, 116, 105, 108, 101>>  \* "llama-3.3-70b-versatile"
    ELSE <<103, 114, 111, 107, 45, 50, 45, 108, 97, 116, 101, 115, 116>>  \* "grok-2-latest"

\* the class attribute API_KEY_URL
API_KEY_URL(cls) ==
    IF cls = "GeminiProvider" THEN "https://aistudio.google.com/app/apikey"
    ELSE IF cls = "OpenAIProvider" THEN "https://platform.openai.com/api-keys"
    ELSE IF cls = "ClaudeProvider" THEN "https://console.anthropic.com/settings/keys"
    ELSE IF cls = "GroqProvider" THEN "https://console.groq.com/keys"
    ELSE "https://console.x.ai/"

\* the class attribute API_KEY_HELP
API_KEY_HELP(cls) ==
    IF cls = "GeminiProvider" THEN "Get your free API key from Google AI Studio"
    ELSE IF cls = "OpenAIProvider" THEN "Get your API key from OpenAI Platform"
    ELSE IF cls = "ClaudeProvider" THEN "Get your API key from Anthropic Console"
    ELSE IF cls = "GroqProvider" THEN "Get your free API key from Groq Console"
    ELSE "Get your API key from xAI Console"

\* the registry PROVIDERS: identifier -> class, in the order written, but
\* with "grok" registered to the Groq adapter
PROVIDERS_Miswired ==
    <<[key |-> gemini, cls |-> "GeminiProvider"],
      [key |-> openai, cls |-> "OpenAIProvider"],
      [key |-> claude, cls |-> "ClaudeProvider"],
      [key |-> groq, cls |-> "GroqProvider"],
      [key |-> grok, cls |-> "GroqProvider"]>>

\* the registry PROVIDERS: identifier -> class, in the order written
PROVIDERS ==
    <<[key |-> gemini, cls |-> "GeminiProvider"],
      [key |-> openai, cls |-> "OpenAIProvider"],
      [key |-> claude, cls |-> "ClaudeProvider"],
      [key |-> groq, cls |-> "GroqProvider"],
      [key |-> grok, cls |-> "GrokProvider"]>>

NoClass == "None"

\* dict.get(key) on the registry: the class, or None
RegistryGet(registry, key) ==
    IF \E i \in 1..Len(registry) : registry[i].key = key
    THEN registry[CHOOSE i \in 1..Len(registry) : registry[i].key = key].cls
    ELSE NoClass

\* the class lookup of get_provider without the .lower()
GetProviderClass_CaseSensitive(provider_name) ==
    RegistryGet(PROVIDERS, provider_name)

\* PROVIDERS.get(provider_name.lower())
GetProviderClass(provider_name) ==
    RegistryGet(PROVIDERS, Lower(provider_name))

\* an adapter before its first call: _client / _genai is None
\* (made counts the constructions of the handle)
NoClient == [built |-> FALSE, api_key |-> None, made |-> 0]

\* AIProvider.__init__ and the subclass __init__
NewProvider(cls, api_key, model) ==
    [cls |-> cls, api_key |-> api_key,
     model |-> IF Truthy(model) THEN model ELSE DEFAULT_MODEL(cls),
     client |-> NoClient]

\* get_provider(provider_name, api_key, model): a new adapter instance, or None
get_provider(provider_name, api_key, model) ==
    LET provider_class == GetProviderClass(provider_name)
        found == provider_class # NoClass
    IN  /\ found => Len(instances) < MaxInstances
        /\ instances' = IF found
                        THEN Append(instances,
                                    NewProvider(provider_class, api_key, model))
                        ELSE instances
        /\ last' = [NoCall EXCEPT !.op = "get_provider",
                                  !.name = provider_name, !.key = api_key,
                                  !.model = model,
                                  !.inst = IF found THEN Len(instances) + 1
                                           ELSE 0]
        /\ UNCHANGED <<config, file, peer, genai, threads>>

NoInfo == [name |-> None]

\* get_all_providers(): identifier -> metadata, in the order of the registry
get_all_providers ==
    [i \in 1..Len(PROVIDERS) |->
        [name |-> PROVIDERS[i].key,
         display_name |-> DISPLAY_NAME(PROVIDERS[i].cls),
         models |-> MODELS(PROVIDERS[i].cls),
         default_model |-> DEFAULT_MODEL(PROVIDERS[i].cls),
         api_key_url |-> API_KEY_URL(PROVIDERS[i].cls),
         api_key_help |-> API_KEY_HELP(PROVIDERS[i].cls)]]

\* get_provider_info(provider_name): the metadata of one identifier, or None
get_provider_info(provider_name) ==
    LET all_providers == get_all_providers
        key == Lower(provider_name)
    IN  IF \E i \in 1..Len(all_providers) : all_providers[i].name = key
        THEN all_providers[CHOOSE i \in 1..Len(all_providers) :
                               all_providers[i].name = key]
        ELSE NoInfo

\* the character budget max_chars of each summarize
MaxChars(cls) ==
    IF cls = "GeminiProvider" THEN 500000
    ELSE IF cls = "OpenAIProvider" THEN 100000
    ELSE IF cls = "ClaudeProvider" THEN 400000
    ELSE IF cls = "GroqProvider" THEN 24000
    ELSE 100000

\* the tag every summarize gives the error it raises, but with the Grok
\* adapter carrying the tag of the OpenAI adapter
ErrorTag_Shared(cls) ==
    IF cls = "GeminiProvider" THEN "Gemini API error: "
    ELSE IF cls = "OpenAIProvider" THEN "OpenAI API error: "
    ELSE IF cls = "ClaudeProvider" THEN "Claude API error: "
    ELSE IF cls = "GroqProvider" THEN "Groq API error: "
    ELSE "OpenAI API error: "

\* the tag every summarize gives the error it raises
ErrorTag(cls) ==
    IF cls = "GeminiProvider" THEN "Gemini API error: "
    ELSE IF cls = "OpenAIProvider" THEN "OpenAI API error: "
    ELSE IF cls = "ClaudeProvider" THEN "Claude API error: "
    ELSE IF cls = "GroqProvider" THEN "Groq API error: "
    ELSE "Grok API error: "

\* a document text is its identity and its length in characters
SummarizeTexts ==
    {[doc |-> "report", len |-> 24000], [doc |-> "report", len |-> 24001]}

\* the truncation, were a text of exactly max_chars characters cut too
Truncate_AtBudget(text, max_chars) ==
    IF text.len >= max_chars
    THEN [body |-> [text EXCEPT !.len = max_chars], marker |-> TRUE]
    ELSE [body |-> text, marker |-> FALSE]

\* text[:max_chars] + "\n\n[Text truncated due to length...]" when too long;
\* [doc, len] stands for the first len characters of the document doc
Truncate(text, max_chars) ==
    IF text.len > max_chars
    THEN [body |-> [text EXCEPT !.len = max_chars], marker |-> TRUE]
    ELSE [body |-> text, marker |-> FALSE]

\* the prompt of test_connection
TestPrompt(cls) ==
    IF cls = "GeminiProvider"
    THEN [body |-> [doc |-> "Say 'OK' if you can read this.", len |-> 30],
          marker |-> FALSE]
    ELSE [body |-> [doc |-> "Say OK", len |-> 6], marker |-> FALSE]

\* "OK"
OK == <<79, 75>>

\* the texts a response can carry: response.text of Gemini is a string, the
\* message content of the other SDKs can be None
Contents(cls) ==
    IF cls = "GeminiProvider" THEN {OK, <<>>} ELSE {OK, <<>>, None}

\* what the backend can do to one call of the adapter inst
Envs(inst) ==
    {[NoEnv EXCEPT !.construct = "fail", !.msg = "No module named sdk"] :
        x \in IF inst.client.built THEN {} ELSE {1}}
    \cup {[NoEnv EXCEPT !.call = "fail", !.msg = m] :
        m \in {"401 invalid api key", "429 quota exceeded"}}
    \cup {[NoEnv EXCEPT !.content = c] : c \in Contents(inst.cls)}

\* _get_client / _get_genai without the 'is None' test: a handle is
\* constructed on every call
GetClient_Rebuild(inst, env) ==
    IF env.construct = "fail" THEN inst.client
    ELSE [built |-> TRUE,
          api_key |-> IF inst.cls = "GeminiProvider" THEN None
                      ELSE inst.api_key,
          made |-> IF inst.client.made < 2 THEN inst.client.made + 1 ELSE 2]

\* _get_client / _get_genai: the client after the call
GetClient(inst, env) ==
    IF inst.client.built \/ env.construct = "fail" THEN inst.client
    ELSE [built |-> TRUE,
          api_key |-> IF inst.cls = "GeminiProvider" THEN None
                      ELSE inst.api_key,
          made |-> inst.client.made + 1]

\* genai.configure(api_key=self.api_key): the key of the module after
\* _get_genai
Configure(inst, env) ==
    IF inst.cls = "GeminiProvider" /\ ~inst.client.built
       /\ env.construct = "ok"
    THEN inst.api_key ELSE genai

\* the model every request names, were it the default model of the class
RequestModel_Default(inst) == DEFAULT_MODEL(inst.cls)

\* the model every request names: self.model
RequestModel(inst) == inst.model

\* the requests one call sends, were a failed request sent a second time
Requests_Retry(inst, env, kind, text) ==
    LET client == GetClient(inst, env)
        req == [kind |-> kind, model |-> RequestModel(inst),
                auth |-> IF inst.cls = "GeminiProvider"
                         THEN Configure(inst, env) ELSE client.api_key,
                text |-> text]
    IN  IF ~client.built THEN <<>>
        ELSE IF env.call = "fail" THEN <<req, req>> ELSE <<req>>

\* the requests one call sends: none when the client cannot be constructed
Requests(inst, env, kind, text) ==
    LET client == GetClient(inst, env)
    IN  IF ~client.built THEN <<>>
        ELSE <<[kind |-> kind, model |-> RequestModel(inst),
                auth |-> IF inst.cls = "GeminiProvider"
                         THEN Configure(inst, env) ELSE client.api_key,
                text |-> text]>>

\* the try block fails: in the construction of the client or in the request
Failed(inst, env) == ~GetClient(inst, env).built \/ env.call = "fail"

\* summarize(text) of the adapter instances[i]
summarize(i, text, env) ==
    LET inst == instances[i]
        sent == Truncate(text, MaxChars(inst.cls))
        failed == Failed(inst, env)
    IN  /\ instances' = [instances EXCEPT ![i].client = GetClient(inst, env)]
        /\ genai' = Configure(inst, env)
        /\ last' = [NoCall EXCEPT
                       !.op = "summarize", !.inst = i, !.env = env,
                       !.text = text, !.preBuilt = inst.client.built,
                       !.requests = Requests(inst, env, "summarize", sent),
                       !.raised = IF failed THEN "Exception" ELSE "no",
                       !.error = IF failed
                                 THEN [tag |-> ErrorTag(inst.cls),
                                       msg |-> env.msg]
                                 ELSE NoCall.error,
                       !.ret = IF failed THEN None ELSE env.content]
        /\ UNCHANGED <<config, file, peer, threads>>

\* bool(response.text) whatever the response
TestConnectionResult_AnyResponse(inst, env) == ~Failed(inst, env)

\* the value of test_connection: bool(response.text), False on any exception
TestConnectionResult(inst, env) ==
    ~Failed(inst, env) /\ Truthy(env.content)

\* test_connection() of the adapter instances[i]
test_connection(i, env) ==
    LET inst == instances[i]
    IN  /\ instances' = [instances EXCEPT ![i].client = GetClient(inst, env)]
        /\ genai' = Configure(inst, env)
        /\ last' = [NoCall EXCEPT
                       !.op = "test_connection", !.inst = i, !.env = env,
                       !.preBuilt = inst.client.built,
                       !.requests = Requests(inst, env, "test_connection",
                                             TestPrompt(inst.cls)),
                       !.retBool = TestConnectionResult(inst, env)]
        /\ UNCHANGED <<config, file, peer, threads>>

\* the adapter of one request goes out of scope when the request ends
release(i) ==
    /\ instances' = [j \in 1..(Len(instances) - 1) |->
                        IF j < i THEN instances[j] ELSE instances[j + 1]]
    /\ last' = [NoCall EXCEPT !.op = "release"]
    /\ UNCHANGED <<config, file, peer, genai, threads>>

NextAdapters ==
    \/ \E n \in AdapterNames, k \in AdapterKeys, m \in ModelArgs :
           get_provider(n, k, m)
    \/ \E i \in 1..Len(instances), t \in SummarizeTexts :
           \E env \in Envs(instances[i]) : summarize(i, t, env)
    \/ \E i \in 1..Len(instances) :
           \E env \in Envs(instances[i]) : test_connection(i, env)
    \/ \E i \in 1..Len(instances) : release(i)

SpecAdapters == Init /\ [][NextAdapters]_vars

\* document texts one character under, at and over each character budget
BudgetTexts ==
    {[doc |-> "report", len |-> n] :
        n \in {23999, 24000, 24001, 100000, 100001, 400000, 400001,
               500000, 500001}}

\* the adapters over texts around their budgets
NextTruncate ==
    \/ \E n \in {gemini, openai, claude, groq, grok}, k \in AdapterKeys :
           get_provider(n, k, None)
    \/ \E i \in 1..Len(instances), t \in BudgetTexts :
           \E env \in Envs(instances[i]) : summarize(i, t, env)
    \/ \E i \in 1..Len(instances) : release(i)

SpecTruncate == Init /\ [][NextTruncate]_vars

\* two credentials of one backend: the stored one and one under test
SharedKeys == {<<97>>, <<233>>}

\* the /api/test-key route: an adapter of its own, constructed from the
\* request's provider and api_key, test_connection on it, and the adapter is
\* dropped when the route returns
test_api_key(provider_name, api_key, env) ==
    LET provider_class == GetProviderClass(provider_name)
        provider == NewProvider(provider_class, api_key, None)
    IN  /\ Truthy(provider_name) /\ Truthy(api_key)
        /\ IF provider_class = NoClass
           THEN /\ env = NoEnv
                /\ genai' = genai
                /\ last' = [NoCall EXCEPT !.op = "test_api_key",
                                          !.name = provider_name,
                                          !.key = api_key]
           ELSE /\ env \in Envs(provider)
                /\ genai' = Configure(provider, env)
                /\ last' = [NoCall EXCEPT
                               !.op = "test_api_key",
                               !.name = provider_name, !.key = api_key,
                               !.env = env,
                               !.requests =
                                   Requests(provider, env, "test_connection",
                                            TestPrompt(provider_class)),
                               !.retBool = TestConnectionResult(provider, env)]
        /\ UNCHANGED <<config, file, peer, instances, threads>>

\* one adapter in use while /api/test-key requests with other credentials
\* are served
NextShared ==
    \/ \E n \in {gemini, openai}, k \in SharedKeys : get_provider(n, k, None)
    \/ \E i \in 1..Len(instances), t \in SummarizeTexts :
           \E env \in Envs(instances[i]) : summarize(i, t, env)
    \/ \E i \in 1..Len(instances) :
           \E env \in Envs(instances[i]) : test_connection(i, env)
    \/ \E n \in {gemini, openai, unknown_xyz}, k \in SharedKeys :
           \E env \in Envs(NewProvider("OpenAIProvider", k, None)) :
               test_api_key(n, k, env)
    \/ \E i \in 1..Len(instances) : release(i)

SpecShared == Init /\ [][NextShared]_vars

(***************************************************************************)
(* The mutators of the one store of the web process, statement by          *)
(* statement, as its request handler threads run them                      *)
(***************************************************************************)
AllDone == \A t \in HandlerThreads : threads[t].pc = "done"

\* a thread takes a step that leaves everything but the store as it is
ThreadStep(t, pc, doc) ==
    /\ threads' = [threads EXCEPT ![t].pc = pc]
    /\ config' = doc
    /\ UNCHANGED <<file, last, peer, instances, genai>>

\* a route calls its method of api_manager
handler_begin(t, op, provider_name, api_key, set_as_default) ==
    /\ threads[t].pc = "done"
    /\ threads' = [threads EXCEPT
                      ![t] = [op |-> op, name |-> provider_name,
                              key |-> api_key, sad |-> set_as_default,
                              pc |-> IF op = "add_provider" THEN "store"
                                     ELSE "test",
                              raised |-> "no"]]
    /\ UNCHANGED <<config, file, last, peer, instances, genai>>

\* add_provider: self.config['providers'][provider_name] = {...}
thread_store(t) ==
    /\ threads[t].pc = "store"
    /\ ThreadStep(t, "want_default",
                  [config EXCEPT !.providers =
                      DictSet(config.providers, threads[t].name,
                              [name |-> threads[t].name,
                               api_key |-> _encode_key(threads[t].key),
                               enabled |-> TRUE])])

\* add_provider: if set_as_default or self.config['default_provider'] is None
thread_want_default(t) ==
    /\ threads[t].pc = "want_default"
    /\ ThreadStep(t, IF threads[t].sad \/ config.default_provider = None
                     THEN "assign" ELSE "save", config)

\* remove_provider, set_default_provider:
\* if provider_name in self.config['providers']
thread_test(t) ==
    /\ threads[t].pc = "test"
    /\ ThreadStep(t, IF ~HasKey(config.providers, threads[t].name) THEN "done"
                     ELSE IF threads[t].op = "remove_provider" THEN "del"
                     ELSE "assign", config)

\* remove_provider: del self.config['providers'][provider_name], a KeyError
\* when another thread has deleted it since the test
thread_del(t) ==
    /\ threads[t].pc = "del"
    /\ IF HasKey(config.providers, threads[t].name)
       THEN ThreadStep(t, "is_default",
                       [config EXCEPT !.providers =
                           DictDel(config.providers, threads[t].name)])
       ELSE /\ threads' = [threads EXCEPT ![t].pc = "done",
                                          ![t].raised = "KeyError"]
            /\ UNCHANGED <<config, file, last, peer, instances, genai>>

\* remove_provider: if self.config['default_provider'] == provider_name
thread_is_default(t) ==
    /\ threads[t].pc = "is_default"
    /\ ThreadStep(t, IF config.default_provider = threads[t].name
                     THEN "promote" ELSE "save", config)

\* remove_provider: default_provider = remaining[0] if remaining else None
thread_promote(t) ==
    /\ threads[t].pc = "promote"
    /\ ThreadStep(t, "save",
                  [config EXCEPT !.default_provider =
                      IF Len(config.providers) > 0
                      THEN config.providers[1].name ELSE None])

\* add_provider, set_default_provider: default_provider = provider_name
thread_assign(t) ==
    /\ threads[t].pc = "assign"
    /\ ThreadStep(t, "save",
                  [config EXCEPT !.default_provider = threads[t].name])

\* self._save_config(), and the method returns
thread_save(t) ==
    /\ threads[t].pc = "save"
    /\ threads' = [threads EXCEPT ![t].pc = "done"]
    /\ file' = Saved(config)
    /\ UNCHANGED <<config, last, peer, instances, genai>>

NextThreads ==
    \E t \in HandlerThreads :
        \/ \E n \in FileNames, s \in BOOLEAN :
               handler_begin(t, "add_provider", n, <<97>>, s)
        \/ \E n \in FileNames : handler_begin(t, "remove_provider", n, None, FALSE)
        \/ \E n \in FileNames :
               handler_begin(t, "set_default_provider", n, None, FALSE)
        \/ thread_store(t)
        \/ thread_want_default(t)
        \/ thread_test(t)
        \/ thread_del(t)
        \/ thread_is_default(t)
        \/ thread_promote(t)
        \/ thread_assign(t)
        \/ thread_save(t)

SpecThreads == Init /\ [][NextThreads]_vars

(***************************************************************************)
(* The summarize flow of the web layer (src/app.py summarize_text)         *)
(***************************************************************************)
\* identifiers the web layer stores: the store accepts any
WebNames == {groq, gemini, unknown_xyz}

\* a written document whose default provider has no record
DanglingDoc == [providers |-> <<>>, default_provider |-> groq]

InitWeb ==
    /\ file \in {NoFile, Saved(DanglingDoc)}
    /\ config = _load_config(file)
    /\ last = NoCall
    /\ peer = _default_config
    /\ instances = <<>>
    /\ genai = None
    /\ threads = [t \in HandlerThreads |-> Idle]

\* the guards of summarize_text without the test of the api key
SummarizeTextError_NoKeyTest(doc) ==
    LET provider_name == GetDefaultProvider(doc)
    IN  IF ~Truthy(provider_name) THEN "No AI provider configured"
        ELSE IF GetProviderClass(provider_name) = NoClass
        THEN "Unsupported provider: "
        ELSE ""

\* the guards of summarize_text: the message of the exception raised before
\* any adapter is called, "" when none is
SummarizeTextError(doc) ==
    LET provider_name == GetDefaultProvider(doc)
    IN  IF ~Truthy(provider_name) THEN "No AI provider configured"
        ELSE IF ~Truthy(GetApiKey(doc, provider_name))
        THEN "API key not found for "
        ELSE IF GetProviderClass(provider_name) = NoClass
        THEN "Unsupported provider: "
        ELSE ""

\* summarize_text(text): the adapter is local to the call; the message of an
\* adapter failure is kept without the prefixes put around it
summarize_text(text, env) ==
    LET provider_name == GetDefaultProvider(config)
        error == SummarizeTextError(config)
        provider == NewProvider(GetProviderClass(provider_name),
                                GetApiKey(config, provider_name), None)
        call == Call("summarize_text", provider_name)
    IN  /\ IF error # ""
           THEN /\ env = NoEnv
                /\ genai' = genai
                /\ last' = [call EXCEPT !.raised = "Exception",
                                        !.error = [tag |-> error, msg |-> ""]]
           ELSE /\ env \in Envs(provider)
                /\ genai' = Configure(provider, env)
                /\ last' = [call EXCEPT
                       !.inst = 1, !.env = env, !.text = text,
                       !.key = provider.api_key,
                       !.requests =
                           Requests(provider, env, "summarize",
                                    Truncate(text, MaxChars(provider.cls))),
                       !.raised = IF Failed(provider, env) THEN "Exception"
                                  ELSE "no",
                       !.error = IF Failed(provider, env)
                                 THEN [tag |-> "Error summarizing text with ",
                                       msg |-> env.msg]
                                 ELSE NoCall.error,
                       !.ret = IF Failed(provider, env) THEN None
                               ELSE env.content]
        /\ UNCHANGED <<config, file, peer, instances, threads>>

NextWeb ==
    \/ \E n \in WebNames, k \in FileKeys, s \in BOOLEAN : add_provider(n, k, s)
    \/ \E n \in WebNames : remove_provider(n)
    \/ \E n \in WebNames : set_default_provider(n)
    \/ \E t \in SummarizeTexts :
           \E env \in Envs(NewProvider("OpenAIProvider", <<97>>, None)) :
               summarize_text(t, env)

SpecWeb == InitWeb /\ [][NextWeb]_vars

(***************************************************************************)
(* The desktop layer's calls of the store (src/native_app.py)              *)
(***************************************************************************)
\* def add_provider(self, provider_name, api_key, set_as_default=True)
add_provider_params == <<"provider_name", "api_key", "set_as_default">>

\* parameters of add_provider without a default value
add_provider_required == 2

\* the methods APIKeyManager defines
APIKeyManagerMethods ==
    {"add_provider", "remove_provider", "get_api_key", "get_default_provider",
     "set_default_provider", "list_providers", "has_any_provider",
     "validate_provider"}

\* Python's binding of a call with npos positional arguments and the keyword
\* arguments kwnames to a signature: "TypeError" when it fails
BindCall(params, required, npos, kwnames) ==
    IF npos > Len(params) THEN "TypeError"
    ELSE IF \E i \in 1..npos : params[i] \in kwnames THEN "TypeError"
    ELSE IF \E k \in kwnames : \A i \in 1..Len(params) : params[i] # k
         THEN "TypeError"
    ELSE IF \E i \in (npos + 1)..required : params[i] \notin kwnames
         THEN "TypeError"
    ELSE "no"

\* getattr(self.api_manager, method): "AttributeError" when it fails
GetMethod(method) ==
    IF method \in APIKeyManagerMethods THEN "no" ELSE "AttributeError"

\* self.api_manager.add_provider(provider, api_key, model, set_as_default=flag):
\* three positional arguments and one keyword argument
NativeAddProvider(op, provider, api_key, model, flag) ==
    LET err == BindCall(add_provider_params, add_provider_required, 3,
                        {"set_as_default"})
    IN  /\ config' = IF err = "no"
                     THEN AddProviderDoc(config, provider, api_key, Truthy(model))
                     ELSE config
        /\ file' = IF err = "no" THEN Saved(config') ELSE file
        /\ last' = [Call(op, provider) EXCEPT
                      !.key = api_key, !.sad = flag,
                      !.saved = (err = "no"), !.raised = err]
        /\ UNCHANGED <<peer, instances, genai, threads>>

\* DocumentSummarizerApp.save_setup
native_save_setup(provider, api_key, model) ==
    NativeAddProvider("native_save_setup", provider, api_key, model, TRUE)

\* DocumentSummarizerApp._add_provider
native_add_provider(provider, api_key, model) ==
    NativeAddProvider("native_add_provider", provider, api_key, model, FALSE)

\* DocumentSummarizerApp.summarize_document up to the model lookup
native_summarize_document ==
    LET provider_name == GetDefaultProvider(config)
    IN  /\ last' = [Call("native_summarize_document", provider_name) EXCEPT
                      !.ret = IF Truthy(provider_name)
                              THEN GetApiKey(config, provider_name) ELSE None,
                      !.raised = IF Truthy(provider_name)
                                 THEN GetMethod("get_model") ELSE "no"]
        /\ UNCHANGED <<config, file, peer, instances, genai, threads>>

Next ==
    \/ \E p \in ProviderNames, k \in ApiKeys, s \in BOOLEAN : add_provider(p, k, s)
    \/ \E p \in ProviderNames : remove_provider(p)
    \/ \E p \in ProviderNames : set_default_provider(p)
    \/ \E p \in ProviderNames \cup {None} : get_api_key(p)
    \/ get_default_provider
    \/ list_providers
    \/ has_any_provider
    \/ \E p \in ProviderNames, k \in ApiKeys, m \in ModelIds : native_save_setup(p, k, m)
    \/ \E p \in ProviderNames, k \in ApiKeys, m \in ModelIds : native_add_provider(p, k, m)
    \/ native_summarize_document

Spec == Init /\ [][Next]_vars

\* the store under credentials of every shape: one provider takes every
\* credential of AllKeys, the other a single one
NextKeys ==
    \/ \E k \in AllKeys, s \in BOOLEAN : add_provider(groq, k, s)
    \/ \E s \in BOOLEAN : add_provider(openai, <<97>>, s)
    \/ \E p \in {groq, openai} : remove_provider(p)
    \/ \E p \in {groq, openai} : set_default_provider(p)
    \/ \E p \in {groq, openai, None} : get_api_key(p)
    \/ list_providers

SpecKeys == Init /\ [][NextKeys]_vars

(***************************************************************************)
(* Properties of the credential store                                      *)
(***************************************************************************)

\* C1: in every state reached from the empty store, default_provider is None
\* or a key of the providers mapping.
C1_DefaultIsStored ==
    \/ config.default_provider = None
    \/ HasKey(config.providers, config.default_provider)

\* the default provider was removed while another one remained
C1_Witness ==
    /\ last.op = "remove_provider"
    /\ last.preHad
    /\ last.preDefault = last.name
    /\ config.default_provider # None

\* C2: add_provider(p, k, s) makes p the default when s is true or there was
\* no default, and keeps the previous default otherwise.
C2_AddProviderDefault ==
    last.op = "add_provider" =>
        config.default_provider =
            IF last.sad \/ last.preDefault = None THEN last.name
            ELSE last.preDefault

\* a second provider was added with set_as_default=False and the first one
\* is still the default
C2_Witness ==
    /\ last.op = "add_provider"
    /\ ~last.sad
    /\ last.preDefault # None
    /\ last.preDefault # last.name
    /\ config.default_provider = last.preDefault

\* the keys of d without k, in d's order
KeysWithout(d, k) == SelectSeq(DictKeys(d), LAMBDA n : n # k)

\* C3: remove_provider(p) of the default provider, with another provider
\* remaining, makes the first remaining provider in insertion order the default
\* and p is no longer a key.
C3_RemovePromotesFirst ==
    [][LET p == last'.name
       IN  (/\ last'.op = "remove_provider"
            /\ HasKey(config.providers, p)
            /\ config.default_provider = p
            /\ Len(config.providers) >= 2)
           => /\ config'.default_provider = KeysWithout(config.providers, p)[1]
              /\ ~HasKey(config'.providers, p)
              /\ DictKeys(config'.providers) = KeysWithout(config.providers, p)]_vars

\* the default was removed and two providers remain
C3_Witness ==
    /\ last.op = "remove_provider"
    /\ last.preHad
    /\ last.preDefault = last.name
    /\ Len(config.providers) = 2
    /\ config.default_provider = config.providers[1].name

\* C4: remove_provider of the only provider leaves default_provider None and
\* has_any_provider() false, in the in-memory document and in the file.
C4_RemoveSoleProvider ==
    [][(/\ last'.op = "remove_provider"
        /\ HasKey(config.providers, last'.name)
        /\ Len(config.providers) = 1)
       => /\ config'.default_provider = None
          /\ ~HasAnyProvider(config')
          /\ file'.exists
          /\ file'.text.default_provider = JsonNull
          /\ file'.text.providers = <<>>]_vars

\* the only provider was removed
C4_Witness ==
    /\ last.op = "remove_provider"
    /\ last.preHad
    /\ last.preDefault = last.name
    /\ config.providers = <<>>
    /\ file.exists

\* C5: get_api_key() without an identifier resolves to the default provider;
\* the result is the decoded credential of the resolved provider, and None
\* when there is no default or no record of the resolved identifier.
C5_GetApiKey ==
    last.op = "get_api_key" =>
        LET resolved == IF last.name = None THEN config.default_provider
                        ELSE last.name
        IN  IF resolved = None \/ ~HasKey(config.providers, resolved)
            THEN last.ret = None
            ELSE /\ last.ret = _decode_key(DictGet(config.providers, resolved).api_key)
                 /\ last.ret \in ApiKeys

\* get_api_key() without an identifier returned the default's credential
C5_Witness ==
    /\ last.op = "get_api_key"
    /\ last.name = None
    /\ config.default_provider # None
    /\ last.ret \in ApiKeys

\* C6: the credential round trip: after add_provider(p, k, ...) the call
\* get_api_key(p) returns exactly k, and no call other than add_provider(p, ...)
\* and remove_provider(p) changes what get_api_key(p) returns.
C6_CredentialRoundTrip ==
    [][/\ last'.op = "add_provider" =>
              /\ GetApiKey(config', last'.name) = last'.key
              /\ _decode_key(_encode_key(last'.key)) = last'.key
       /\ \A p \in {groq, openai} :
              (/\ HasKey(config.providers, p)
               /\ ~(last'.op \in {"add_provider", "remove_provider"}
                    /\ last'.name = p))
              => GetApiKey(config', p) = GetApiKey(config, p)]_vars

\* get_api_key returned a stored credential with a two-byte character while
\* two providers were stored
C6_Witness ==
    /\ last.op = "get_api_key"
    /\ last.name = groq
    /\ Len(config.providers) = 2
    /\ last.ret \in AllKeys
    /\ \E i \in 1..Len(last.ret) : last.ret[i] = 233

\* C7: set_default_provider(p) changes neither the document nor the file when
\* p has no record; when p has one it makes p the default, changes no record
\* and writes the document to the file.
C7_SetDefaultProvider ==
    [][last'.op = "set_default_provider" =>
          IF HasKey(config.providers, last'.name)
          THEN /\ config'.default_provider = last'.name
               /\ config'.providers = config.providers
               /\ last'.saved
               /\ file' = Saved(config')
               /\ file'.text.default_provider = JsonStr(last'.name)
          ELSE /\ config' = config
               /\ file' = file
               /\ ~last'.saved]_vars

\* set_default_provider moved the default to another stored provider
C7_Witness ==
    /\ last.op = "set_default_provider"
    /\ last.preHad
    /\ last.preDefault # last.name
    /\ config.default_provider = last.name

\* C8: every key of providers and the default pointer are lowercase, and
\* identifiers that differ only in case address one record.
C8_LowercaseIdentifiers ==
    /\ \A i \in 1..Len(config.providers) :
           config.providers[i].name = Lower(config.providers[i].name)
    /\ \/ config.default_provider = None
       \/ config.default_provider = Lower(config.default_provider)
    /\ \A i, j \in 1..Len(config.providers) :
           Lower(config.providers[i].name) = Lower(config.providers[j].name)
           => i = j

\* C9: the desktop layer's add_provider(provider, key, model, set_as_default=...)
\* and get_model(provider) calls complete without error, and the record of an
\* added provider holds the model.
C9_DesktopModelCalls ==
    /\ last.op \in {"native_save_setup", "native_add_provider",
                    "native_summarize_document"}
       => last.raised = "no"
    /\ last.op \in {"native_save_setup", "native_add_provider"}
       => /\ HasKey(config.providers, last.name)
          /\ "model" \in DOMAIN DictGet(config.providers, last.name)

\* needle occurs in haystack
Contains(haystack, needle) ==
    \E i \in 0..(Len(haystack) - Len(needle)) :
        SubSeq(haystack, i + 1, i + Len(needle)) = needle

\* C10: no preview returned by list_providers() contains the raw credential,
\* and the preview of a key longer than 12 characters is its first 8
\* characters, "..." and its last 4 characters.
C10_PreviewHidesCredential ==
    last.op = "list_providers" =>
        \A i \in 1..Len(last.retList) :
            LET key == _decode_key(config.providers[i].api_key)
                preview == last.retList[i].api_key_preview
            IN  /\ ~Contains(preview, key)
                /\ Len(key) > 12 =>
                       preview = SubSeq(key, 1, 8) \o <<46, 46, 46>>
                                 \o SubSeq(key, Len(key) - 3, Len(key))

NextFile ==
    \/ \E m \in SubscriptingMethods : call_on_loaded(m)
    \/ \E p \in FileNames, k \in FileKeys, s \in BOOLEAN : begin_add_provider(p, k, s)
    \/ \E p \in FileNames : begin_remove_provider(p)
    \/ \E p \in FileNames : begin_set_default_provider(p)
    \/ save_write
    \/ save_fails
    \/ crash_restart
    \/ IsDocument(config) /\ last.pc = "done" /\ has_any_provider
    \/ IsDocument(config) /\ last.pc = "done" /\ get_default_provider
    \/ IsDocument(config) /\ last.pc = "done"
       /\ \E p \in FileNames \cup {None} : get_api_key(p)

SpecFile == InitFile /\ [][NextFile]_vars

\* C11: a store constructed over a corrupt or unreadable file holds the empty
\* document, and no call of the store raises afterwards.
C11_CorruptFileLoadsEmpty ==
    /\ (last.op = "init" /\ file.exists /\ file.kind # "document")
       => config = _default_config
    /\ last.op \in SubscriptingMethods => last.raised \in {"no", "OSError"}

\* C12: after every add_provider, remove_provider and set_default_provider
\* call the file holds the in-memory document: a store constructed over the
\* file has the same providers, credentials and default.
C12_FileEqualsDocument ==
    last.op \in {"add_provider", "remove_provider", "set_default_provider"} =>
        /\ _load_config(file) = config
        /\ last.saved => file = Saved(config)

\* set_default_provider moved the default and a store constructed over the
\* file sees the new default
C12_Witness ==
    /\ last.op = "set_default_provider"
    /\ last.saved
    /\ last.preDefault # last.name
    /\ Len(config.providers) >= 2
    /\ _load_config(file).default_provider = last.name

\* C13: the file is never partially written: every step leaves it as it was
\* or leaves the complete document of the store in it.
C13_NeverPartiallyWritten ==
    [][\/ file' = file
       \/ /\ file'.exists
          /\ file'.kind = "document"
          /\ file' = Saved(config')]_vars

NextTwo ==
    \/ \E p \in FileNames, k \in FileKeys, s \in BOOLEAN : add_provider(p, k, s)
    \/ \E p \in FileNames : remove_provider(p)
    \/ peer_load
    \/ \E p \in FileNames, k \in FileKeys, s \in BOOLEAN : peer_add_provider(p, k, s)
    \/ \E p \in FileNames : peer_remove_provider(p)

SpecTwo == Init /\ [][NextTwo]_vars

\* C14: with two store instances over one file the last writer wins: after a
\* write the file is the writer's document, and what only the other instance
\* had added is not in the file.
C14_LastWriterWins ==
    [][/\ (last'.op \in {"add_provider", "remove_provider"} /\ last'.saved)
          => file' = Saved(config')
       /\ (last'.op \in {"peer_add_provider", "peer_remove_provider"} /\ last'.saved)
          => file' = Saved(peer')
       /\ last'.op = "peer_add_provider"
          => \A a \in FileNames :
                 HasKey(_load_config(file').providers, a)
                 <=> (a = last'.name \/ HasKey(peer.providers, a))]_vars

\* the first instance had added groq, the second instance then added openai,
\* and groq is not in the file
C14_Witness ==
    /\ last.op = "peer_add_provider"
    /\ last.name = openai
    /\ HasKey(config.providers, groq)
    /\ ~HasKey(peer.providers, groq)
    /\ file = Saved(peer)
    /\ ~HasKey(_load_config(file).providers, groq)

\* C15: get_provider matches the identifier against the registry without
\* regard to case: it returns an adapter instance of the matching class for
\* each of the five registered identifiers, and for every other identifier it
\* returns None and raises nothing.
C15_GetProviderRegistry ==
    last.op = "get_provider" =>
        /\ last.raised = "no"
        /\ (last.inst # 0) <=>
               (Lower(last.name) \in {gemini, openai, claude, groq, grok})
        /\ last.inst # 0 =>
               /\ last.inst \in 1..Len(instances)
               /\ PROVIDER_NAME(instances[last.inst].cls) = Lower(last.name)
               /\ instances[last.inst].api_key = last.key

C15_Witness ==
    /\ last.op = "get_provider"
    /\ last.name = GEMINI
    /\ last.inst # 0
    /\ instances[last.inst].cls = "GeminiProvider"

\* C16: the instance get_provider returns for a registered provider has the
\* identifier, the display name, the model catalog and the default model that
\* get_all_providers and get_provider_info report for that provider, and the
\* default model of every registered provider is a key of its catalog.
C16_InstanceMatchesMetadata ==
    last.op = "get_provider" /\ last.inst # 0 =>
        LET inst == instances[last.inst]
            info == get_provider_info(last.name)
        IN  /\ info.name # None
            /\ info.name = PROVIDER_NAME(inst.cls)
            /\ info.display_name = DISPLAY_NAME(inst.cls)
            /\ info.models = MODELS(inst.cls)
            /\ info.default_model = DEFAULT_MODEL(inst.cls)
            /\ \A p \in 1..Len(get_all_providers) :
                   \E j \in 1..Len(get_all_providers[p].models) :
                       get_all_providers[p].models[j].id
                           = get_all_providers[p].default_model

C16_Witness ==
    /\ last.op = "get_provider"
    /\ last.name = grok
    /\ last.inst # 0
    /\ get_provider_info(grok).display_name = "xAI Grok"

\* C17: an adapter constructed with a model id holds that model id,
\* constructed with None it holds the default model of its class; summarize
\* and test_connection leave the model of every instance as it was and name
\* it in every request they send.
C17_ModelStep ==
    /\ last'.op = "get_provider" /\ last'.inst # 0 =>
           instances'[last'.inst].model =
               IF last'.model = None
               THEN DEFAULT_MODEL(instances'[last'.inst].cls)
               ELSE last'.model
    /\ last'.op \in {"summarize", "test_connection"} =>
           /\ Len(instances') = Len(instances)
           /\ \A j \in 1..Len(instances) :
                  instances'[j].model = instances[j].model
           /\ \A r \in 1..Len(last'.requests) :
                  last'.requests[r].model = instances[last'.inst].model

C17_ModelHonoured == [][C17_ModelStep]_vars

C17_Witness ==
    /\ last.op = "summarize"
    /\ Len(last.requests) = 1
    /\ last.requests[1].model = <<109, 49>>
    /\ last.requests[1].model # DEFAULT_MODEL(instances[last.inst].cls)

\* C18: test_connection raises nothing; it returns False when the client
\* cannot be constructed or the request fails, and True only when the
\* response carries a non-empty text.
C18_TestConnectionNeverRaises ==
    last.op = "test_connection" =>
        /\ last.raised = "no"
        /\ last.retBool <=>
               /\ last.env.construct = "ok"
               /\ last.env.call = "ok"
               /\ last.env.content # None
               /\ Len(last.env.content) > 0

C18_Witness ==
    /\ last.op = "test_connection"
    /\ last.env.call = "fail"
    /\ Len(last.requests) = 1
    /\ ~last.retBool

\* C19: when the construction of the client or the request fails, summarize
\* raises one exception whose message is the tag of its own backend followed
\* by the message of the original error, and returns nothing; when neither
\* fails it raises nothing.
C19_TaggedFailure ==
    last.op = "summarize" =>
        LET name == PROVIDER_NAME(instances[last.inst].cls)
            tag == IF name = gemini THEN "Gemini API error: "
                   ELSE IF name = openai THEN "OpenAI API error: "
                   ELSE IF name = claude THEN "Claude API error: "
                   ELSE IF name = groq THEN "Groq API error: "
                   ELSE "Grok API error: "
        IN  IF last.env.construct = "fail" \/ last.env.call = "fail"
            THEN /\ last.raised = "Exception"
                 /\ last.error = [tag |-> tag, msg |-> last.env.msg]
                 /\ last.ret = None
            ELSE last.raised = "no"

C19_Witness ==
    /\ last.op = "summarize"
    /\ instances[last.inst].cls = "GrokProvider"
    /\ last.env.construct = "fail"
    /\ last.raised = "Exception"
    /\ last.error.msg = "No module named sdk"

\* C20: when the request of the Gemini adapter against its model fails,
\* summarize sends exactly one more request, against a different, lighter
\* model, before it raises.
C20_GeminiFallbackRetry ==
    (/\ last.op = "summarize"
     /\ instances[last.inst].cls = "GeminiProvider"
     /\ last.env.construct = "ok"
     /\ last.env.call = "fail")
        => /\ Len(last.requests) = 2
           /\ last.requests[2].model # last.requests[1].model

\* C21: one summarize of the OpenAI, Claude, Groq or Grok adapter sends at
\* most one request, exactly one once its client exists, against the model of
\* the instance; when that request fails summarize raises at once.
C21_SingleAttempt ==
    (/\ last.op = "summarize"
     /\ instances[last.inst].cls \in {"OpenAIProvider", "ClaudeProvider",
                                      "GroqProvider", "GrokProvider"})
        => /\ Len(last.requests) <= 1
           /\ last.env.construct = "ok" =>
                  /\ Len(last.requests) = 1
                  /\ last.requests[1].model = instances[last.inst].model
                  /\ last.requests[1].kind = "summarize"
           /\ last.env.call = "fail" =>
                  /\ last.raised = "Exception"
                  /\ last.ret = None

C21_Witness ==
    /\ last.op = "summarize"
    /\ instances[last.inst].cls = "GroqProvider"
    /\ last.env.call = "fail"
    /\ Len(last.requests) = 1
    /\ last.raised = "Exception"

\* C22: summarize of an adapter with character budget B sends, of a text
\* longer than B, its first B characters followed by the truncation marker,
\* and sends a text of at most B characters whole and without the marker.
C22_TruncationAtBudget ==
    last.op = "summarize" /\ Len(last.requests) > 0 =>
        LET name == PROVIDER_NAME(instances[last.inst].cls)
            B == IF name = gemini THEN 500000
                 ELSE IF name = openai THEN 100000
                 ELSE IF name = claude THEN 400000
                 ELSE IF name = groq THEN 24000
                 ELSE 100000
        IN  \A r \in 1..Len(last.requests) :
                last.requests[r].text =
                    IF last.text.len > B
                    THEN [body |-> [doc |-> last.text.doc, len |-> B],
                          marker |-> TRUE]
                    ELSE [body |-> last.text, marker |-> FALSE]

C22_Witness ==
    /\ last.op = "summarize"
    /\ instances[last.inst].cls = "GeminiProvider"
    /\ last.text.len = 500001
    /\ Len(last.requests) = 1
    /\ last.requests[1].text.marker
    /\ last.requests[1].text.body.len = 500000

\* C23: the client handle of an adapter instance is absent after
\* construction of the instance, is constructed by the first summarize or
\* test_connection call whose construction succeeds, and once constructed is
\* the same handle after every later call on the instance, failed calls
\* included; calls on one instance leave the handles of the others alone.
C23_HandleStep ==
    /\ last'.op = "get_provider" /\ last'.inst # 0 =>
           instances'[last'.inst].client = NoClient
    /\ last'.op \in {"summarize", "test_connection"} =>
           /\ Len(instances') = Len(instances)
           /\ \A j \in 1..Len(instances) :
                  IF j # last'.inst \/ instances[j].client.built
                  THEN instances'[j].client = instances[j].client
                  ELSE IF last'.env.construct = "ok"
                  THEN /\ instances'[j].client.built
                       /\ instances'[j].client.made = 1
                  ELSE instances'[j].client = NoClient

C23_HandleBuiltOnce == [][C23_HandleStep]_vars

C23_Witness ==
    /\ last.op = "summarize"
    /\ last.preBuilt
    /\ last.raised = "Exception"
    /\ instances[last.inst].client.built
    /\ instances[last.inst].client.made = 1

\* C24: every request an adapter instance sends is authenticated with the
\* credential that instance was constructed with, whatever other adapters
\* with other credentials were constructed and used before it.
C24_OwnCredential ==
    last.op \in {"summarize", "test_connection"} =>
        \A r \in 1..Len(last.requests) :
            last.requests[r].auth = instances[last.inst].api_key

(***************************************************************************)
(* The store over a file whose stored credentials were damaged             *)
(***************************************************************************)
\* stored credentials that do not decode: "A" and "YQ" are incomplete base64
\* (binascii.Error), "/w==" is the byte 0xFF (UnicodeDecodeError)
CorruptCredentials == {<<65>>, <<89, 81>>, <<47, 119, 61, 61>>}

\* a written document with one damaged record among intact ones
CorruptDoc(bad, at) ==
    LET intact == AddProviderDoc(
                      AddProviderDoc(_default_config, groq, <<97>>, TRUE),
                      openai, <<233>>, FALSE)
    IN  [intact EXCEPT !.providers[at].api_key = bad]

CorruptFiles ==
    {Saved(CorruptDoc(bad, at)) : bad \in CorruptCredentials, at \in 1..2}

InitCorrupt ==
    /\ file \in CorruptFiles
    /\ config = _load_config(file)
    /\ last = NoCall
    /\ peer = _default_config
    /\ instances = <<>>
    /\ genai = None
    /\ threads = [t \in HandlerThreads |-> Idle]

NextCorrupt ==
    \/ list_providers
    \/ \E n \in ProviderNames, k \in FileKeys : add_provider(n, k, FALSE)
    \/ \E n \in ProviderNames : remove_provider(n)
    \/ \E n \in ProviderNames : set_default_provider(n)

SpecCorrupt == InitCorrupt /\ [][NextCorrupt]_vars

\* C25: list_providers raises nothing on a document with a stored credential
\* that does not decode: it returns one entry per record, in order, the entry
\* of a damaged record with the preview "***" and the entry of an intact
\* record with the preview of its credential.
C25_CorruptCredentialMasked ==
    last.op = "list_providers" =>
        /\ last.raised = "no"
        /\ Len(last.retList) = Len(config.providers)
        /\ \A i \in 1..Len(config.providers) :
               /\ last.retList[i].name = config.providers[i].name
               /\ last.retList[i].is_default =
                      (config.providers[i].name = config.default_provider)
               /\ config.providers[i].api_key \in CorruptCredentials =>
                      last.retList[i].api_key_preview = <<42, 42, 42>>
               /\ \A k \in FileKeys :
                      config.providers[i].api_key = _encode_key(k) =>
                          last.retList[i].api_key_preview = k \o <<46, 46, 46>>

C25_Witness ==
    /\ last.op = "list_providers"
    /\ Len(last.retList) = 2
    /\ config.providers[1].api_key = <<47, 119, 61, 61>>
    /\ last.retList[1].api_key_preview = <<42, 42, 42>>
    /\ last.retList[2].api_key_preview = <<233, 46, 46, 46>>

\* C26: in every state reached from the empty store by add_provider,
\* remove_provider and set_default_provider, default_provider is None exactly
\* when providers is empty; so when has_any_provider() is true,
\* get_default_provider() is an identifier.
C26_DefaultAbsentIffEmpty ==
    /\ (config.default_provider = None) <=> (Len(config.providers) = 0)
    /\ last.op = "has_any_provider" /\ last.retBool =>
           /\ GetDefaultProvider(config) # None
           /\ HasKey(config.providers, GetDefaultProvider(config))

C26_Witness ==
    /\ last.op = "has_any_provider"
    /\ last.retBool
    /\ Len(config.providers) = 2
    /\ config.default_provider = config.providers[2].name

\* C27: whenever the request handler threads that ran add_provider,
\* remove_provider and set_default_provider on the one store have all
\* returned, default_provider is None or names a provider in providers,
\* however their statements interleaved.
C27_NoDanglingDefault ==
    AllDone =>
        \/ config.default_provider = None
        \/ HasKey(config.providers, config.default_provider)

\* C28: summarize_text invokes the summarize of an adapter exactly when a
\* default provider is set, a credential is stored for it and its identifier
\* is in the registry; otherwise it raises one of its three configuration
\* errors and sends no request.
C28_SummarizeOnlyWhenConfigured ==
    last.op = "summarize_text" =>
        LET default == config.default_provider
            ready == /\ default # None
                     /\ HasKey(config.providers, default)
                     /\ Lower(default) \in {gemini, openai, claude, groq, grok}
        IN  IF ready
            THEN /\ last.inst = 1
                 /\ last.key = _decode_key(DictGet(config.providers,
                                                   default).api_key)
            ELSE /\ last.inst = 0
                 /\ Len(last.requests) = 0
                 /\ last.raised = "Exception"
                 /\ last.error.tag =
                        IF default = None THEN "No AI provider configured"
                        ELSE IF ~HasKey(config.providers, default)
                        THEN "API key not found for "
                        ELSE "Unsupported provider: "

C28_Witness ==
    /\ last.op = "summarize_text"
    /\ config.default_provider = unknown_xyz
    /\ HasKey(config.providers, unknown_xyz)
    /\ last.raised = "Exception"
    /\ last.error.tag = "Unsupported provider: "
    /\ Len(last.requests) = 0

\* C29: remove_provider of an identifier with no record leaves the document
\* as it is and does not write the file; remove_provider of a stored
\* identifier that is not the default leaves default_provider and the record
\* of every other provider, and their order, as they were.
C29_RemoveStep ==
    last'.op = "remove_provider" =>
        /\ ~HasKey(config.providers, last'.name) =>
               /\ config' = config
               /\ file' = file
               /\ ~last'.saved
        /\ (/\ HasKey(config.providers, last'.name)
            /\ config.default_provider # last'.name) =>
               /\ config'.default_provider = config.default_provider
               /\ ~HasKey(config'.providers, last'.name)
               /\ Len(config'.providers) = Len(config.providers) - 1
               /\ \A i \in 1..Len(config.providers) :
                      config.providers[i].name # last'.name =>
                          \E j \in 1..Len(config'.providers) :
                              /\ config'.providers[j] = config.providers[i]
                              /\ j \in {i, i - 1}

C29_RemoveFrame == [][C29_RemoveStep]_vars

C29_Witness ==
    /\ last.op = "remove_provider"
    /\ ~last.preHad
    /\ ~last.saved
    /\ Len(config.providers) = 2
    /\ file = Saved(config)

====
